---- MODULE Spec2Model ----
(***************************************************************************)
(* Model of the funds-transfer path of The-Bank (public/src/core/api.js). *)
(* createTransfer drives a Firestore runTransaction: two transactional    *)
(* reads, a balance check, two staged balance updates and two staged      *)
(* ledger documents whose ids are built from Date.now().  The store       *)
(* commits the staged writes atomically if the documents read are         *)
(* unchanged, and otherwise re-runs the body, at most MaxAttempts times.   *)
(* Next to it: account creation (createAccount, registerUser), the read    *)
(* queries, the transfers page that calls createTransfer (handleTransfer   *)
(* and validateForm) and the auth state of public/src/core/auth.js.        *)
(***************************************************************************)
EXTENDS Integers, Naturals, Sequences, FiniteSets, TLC

\* ------------------------------------------------------------------ bounds
NumCalls == 2          \* createTransfer calls of one behaviour, in any interleaving
MaxClock == 1          \* largest Date.now() value
MaxBalance == 2        \* largest opening balance of an account
MaxAmount == 1         \* largest amount of a request

\* ------------------------------------------------------- program constants
MaxAttempts == 5       \* runTransaction is called without options

Users == {"u1", "u2"}
ExistingIds == {"a", "b"}
AllIds == ExistingIds \cup {"ghost"}
Owner == [a |-> "u1", b |-> "u2"]
NoneReturned == [op |-> "none"]
UserDoc == [role |-> "customer", status |-> "active"]

\* api.js:464-468 and auth.js:319-323, generateAccountNumber(): the last 8
\* digits of Date.now() followed by 4 random digits
TimestampModulus == 100000000
RandomRange == 10000
AccountNumber(now, random) == (now % TimestampModulus) * RandomRange + random

\* utils.js:126-136, sanitizeInput on the inputs used here: the text is
\* trimmed (none of them has a character that is escaped)
Sanitize(text) ==
    CASE text = " business " -> "business"
      [] text = " EUR " -> "EUR"
      [] OTHER -> text

\* an account document as registerUser writes it (auth.js:117-125), with the
\* version the store keeps for it
AccountDoc(userId, number, balance) ==
    [userId |-> userId, accountType |-> "checking", accountNumber |-> number,
     balance |-> balance, currency |-> "USD", status |-> "active",
     version |-> 0]
Amounts == (0 - 1) .. MaxAmount
Calls == 1 .. NumCalls

NoSnap == [fromBal |-> 0, fromVer |-> 0, toBal |-> 0, toVer |-> 0,
           toUser |-> "", debitId |-> <<0, "">>, creditId |-> <<0, "">>]
NoReq == [fromAccountId |-> "", toAccountId |-> "", amount |-> 0, userId |-> ""]

\* firebase.js:113 and 232-246: the transfers page before its data is loaded
\* and before a form is submitted
NoForm == [fromAccount |-> "", toAccount |-> "", amount |-> ""]
NoPage == [options |-> << >>, form |-> NoForm, outcome |-> "none", errors |-> {}]

\* auth.js:12-16: the module state of auth.js when the module is loaded (no
\* promise is 0), with no observer registered, no event delivered and no
\* initAuth call made
NoAuth ==
    [currentUser |-> "null", authInitPromise |-> 0, authStateKnown |-> FALSE,
     promises |-> 0, settled |-> << >>, initializing |-> 0, observers |-> 0,
     awaiting |-> << >>, lastEvent |-> "none", events |-> 0, returns |-> << >>]

VARIABLES
    accounts,    \* collection 'accounts': id -> account document and its version
    ledger,      \* collection 'transactions': doc id -> entry
    clock,       \* Date.now()
    pc,          \* per call: position inside createTransfer
    req,         \* per call: transferData
    snap,        \* per call: what the running attempt read and staged
    attempts,    \* per call: attempts of the transaction body that failed
    result,      \* per call: outcome of createTransfer
    serial,      \* history: the store if the committed transfers had run one by one
    store0,      \* history: the accounts collection at the start
    createdAt,   \* collection 'transactions': doc id -> its createdAt field
    users,       \* collection 'users': uid -> user document
    returned,    \* the last call of a query or of createAccount, and its value
    page,        \* transfers page: the source options shown, the form submitted, its outcome
    auth         \* auth.js module state, the observer's callbacks and the initAuth calls

vars == <<accounts, ledger, clock, pc, req, snap, attempts, result,
          serial, store0, createdAt, users, returned, page, auth>>

\* ------------------------------------------------------------ pure helpers
RECURSIVE SumOver(_, _)
SumOver(f, S) ==
    IF S = {} THEN 0
    ELSE LET x == CHOOSE y \in S : TRUE IN f[x] + SumOver(f, S \ {x})

Balances(accts) == [id \in DOMAIN accts |-> accts[id].balance]
TotalBalance(accts) == SumOver(Balances(accts), DOMAIN accts)

\* api.js:162 and api.js:177, snapshot.exists()
Exists(accts, id) == id \in DOMAIN accts

\* variant: the balance check refuses an amount equal to the balance
InsufficientBalanceOffByOne(balance, amount) == balance <= amount

\* api.js:169, the balance check
InsufficientBalance(balance, amount) == balance < amount

\* api.js:185 and api.js:189, the staged balances
NewFromBalance(balance, amount) == balance - amount
NewToBalance(balance, amount) == balance + amount

\* api.js:196 and api.js:210, the ids of the two ledger documents
DebitRef(now) == <<now, "debit">>
CreditRef(now) == <<now, "credit">>

\* variant: the debit entry's userId is taken from the account id field
DebitEntryOwnedByAccountId(r) ==
    [userId |-> r.fromAccountId, accountId |-> r.fromAccountId, type |-> "debit",
     category |-> "transfer", amount |-> r.amount,
     relatedAccountId |-> r.toAccountId, status |-> "completed"]

\* api.js:197-207
DebitEntry(r) ==
    [userId |-> r.userId, accountId |-> r.fromAccountId, type |-> "debit",
     category |-> "transfer", amount |-> r.amount,
     relatedAccountId |-> r.toAccountId, status |-> "completed"]

\* variant: the credit entry is given the requesting user as its owner
CreditEntryOwnedByRequester(r, toUser) ==
    [userId |-> r.userId, accountId |-> r.toAccountId, type |-> "credit",
     category |-> "transfer", amount |-> r.amount,
     relatedAccountId |-> r.fromAccountId, status |-> "completed"]

\* api.js:211-221
CreditEntry(r, toUser) ==
    [userId |-> toUser, accountId |-> r.toAccountId, type |-> "credit",
     category |-> "transfer", amount |-> r.amount,
     relatedAccountId |-> r.fromAccountId, status |-> "completed"]

\* variant: the balance is written with transaction.set(ref, {balance}),
\* which replaces the document, so that its other fields are lost
UpdateBalanceBySet(accts, id, b) ==
    [accts EXCEPT ![id] = [userId |-> "", accountType |-> "", accountNumber |-> 0,
                           balance |-> b, currency |-> "", status |-> "",
                           version |-> @.version + 1]]

\* transaction.update(ref, {balance: b}): only the balance field is replaced
UpdateBalance(accts, id, b) ==
    [accts EXCEPT ![id] = [@ EXCEPT !.balance = b, !.version = @ + 1]]

\* api.js:184-190: the two staged updates, applied in the order staged
StagedBalances(accts, r, s) ==
    UpdateBalance(
        UpdateBalance(accts, r.fromAccountId,
                      NewFromBalance(s.fromBal, r.amount)),
        r.toAccountId, NewToBalance(s.toBal, r.amount))

\* transaction.set(ref, data): creates the document or replaces it
SetDoc(coll, id, data) ==
    [x \in DOMAIN coll \cup {id} |-> IF x = id THEN data ELSE coll[x]]

\* api.js:196-221: the two staged ledger documents, in the order staged
StagedLedger(led, r, s) ==
    SetDoc(SetDoc(led, s.debitId, DebitEntry(r)),
           s.creditId, CreditEntry(r, s.toUser))

\* api.js:193, serverTimestamp(): the time of the commit on the server,
\* later than the time of every earlier commit
RECURSIVE MaxOf(_)
MaxOf(S) ==
    IF S = {} THEN 0
    ELSE LET x == CHOOSE y \in S : TRUE
             m == MaxOf(S \ {x})
         IN IF x > m THEN x ELSE m
ServerTimestamp(stamps) == MaxOf({stamps[id] : id \in DOMAIN stamps}) + 1

\* api.js:206 and 220: both documents of a commit get its timestamp
StampedAt(stamps, ids, t) ==
    [x \in DOMAIN stamps \cup ids |-> IF x \in ids THEN t ELSE stamps[x]]

\* api.js:223-227: the object the transaction body returns
TransferResult(r, s) ==
    [success |-> TRUE,
     newFromBalance |-> NewFromBalance(s.fromBal, r.amount),
     newToBalance |-> NewToBalance(s.toBal, r.amount)]

\* api.js:157-227 run alone: the transaction body on the store st, with no
\* other transaction between its reads and its commit
SerialTransfer(st, r, debitId, creditId) ==
    IF \/ ~Exists(st.accounts, r.fromAccountId)
       \/ ~Exists(st.accounts, r.toAccountId)
       \/ InsufficientBalance(st.accounts[r.fromAccountId].balance, r.amount)
    THEN st
    ELSE LET s == [fromBal |-> st.accounts[r.fromAccountId].balance,
                   toBal |-> st.accounts[r.toAccountId].balance,
                   toUser |-> st.accounts[r.toAccountId].userId,
                   debitId |-> debitId, creditId |-> creditId]
         IN [accounts |-> StagedBalances(st.accounts, r, s),
             ledger |-> StagedLedger(st.ledger, r, s)]

\* variant: plain reads and a write batch, nothing is validated at commit
ReadsCurrentNoCheck(accts, r, s) ==
    /\ Exists(accts, r.fromAccountId)
    /\ Exists(accts, r.toAccountId)

\* variant: the source is read outside the transaction, only the
\* destination is validated at commit
ReadsCurrentDestOnly(accts, r, s) ==
    /\ Exists(accts, r.fromAccountId)
    /\ Exists(accts, r.toAccountId)
    /\ accts[r.toAccountId].version = s.toVer

\* runTransaction's commit precondition: every document read by the attempt
\* still has the version that was read
ReadsCurrent(accts, r, s) ==
    /\ Exists(accts, r.fromAccountId)
    /\ Exists(accts, r.toAccountId)
    /\ accts[r.fromAccountId].version = s.fromVer
    /\ accts[r.toAccountId].version = s.toVer

\* api.js:231-239: the error codes createTransfer throws
BusinessFailures == {"ACCOUNT_NOT_FOUND_SOURCE", "ACCOUNT_NOT_FOUND_DESTINATION",
                     "INSUFFICIENT_BALANCE"}
Outcomes == BusinessFailures \cup {"success", "TRANSFER_ERROR", "INVALID_REQUEST"}

\* ------------------------------------------------------------------ state
TypeOK ==
    /\ clock \in 0 .. MaxClock
    /\ \A c \in DOMAIN pc : pc[c] \in {"idle", "getFrom", "getTo", "commit", "done"}
    /\ \A c \in DOMAIN pc : result[c] \in Outcomes \cup {"none"}
    /\ \A c \in DOMAIN pc : attempts[c] \in 0 .. MaxAttempts
    /\ DOMAIN serial.accounts = DOMAIN accounts
    /\ DOMAIN createdAt = DOMAIN ledger

Init ==
    /\ \E ba \in 0 .. MaxBalance, bb \in 0 .. MaxBalance :
         accounts = [id \in ExistingIds |->
                       AccountDoc(Owner[id],
                                  AccountNumber(0, IF id = "a" THEN 0 ELSE 1),
                                  IF id = "a" THEN ba ELSE bb)]
    /\ store0 = accounts
    /\ ledger = << >>
    /\ clock = 0
    /\ pc = [c \in Calls |-> "idle"]
    /\ req = [c \in Calls |-> NoReq]
    /\ snap = [c \in Calls |-> NoSnap]
    /\ attempts = [c \in Calls |-> 0]
    /\ result = [c \in Calls |-> "none"]
    /\ serial = [accounts |-> accounts, ledger |-> << >>]
    /\ createdAt = << >>
    /\ users = [u \in Users |-> UserDoc]
    /\ returned = NoneReturned
    /\ page = NoPage
    /\ auth = NoAuth

\* ---------------------------------------------------------------- actions
\* Date.now() advances between two steps
Tick ==
    /\ clock < MaxClock
    /\ clock' = clock + 1
    /\ UNCHANGED <<accounts, ledger, pc, req, snap, attempts, result,
                   serial, store0, createdAt, users, returned, page, auth>>

\* api.js:148-157: createTransfer(transferData) is called and enters
\* runTransaction; no field of transferData is validated
Begin(c) ==
    /\ pc[c] = "idle"
    /\ \E f \in AllIds, t \in AllIds, a \in Amounts, u \in Users :
         req' = [req EXCEPT ![c] = [fromAccountId |-> f, toAccountId |-> t,
                                    amount |-> a, userId |-> u]]
    /\ pc' = [pc EXCEPT ![c] = "getFrom"]
    /\ UNCHANGED <<accounts, ledger, clock, snap, attempts, result,
                   serial, store0, createdAt, users, returned, page, auth>>

\* api.js:163, 170, 178 and 231-237: the transaction body throws; such an
\* error is not retried by runTransaction and createTransfer rethrows it
Fail(c, code) ==
    /\ pc' = [pc EXCEPT ![c] = "done"]
    /\ result' = [result EXCEPT ![c] = code]

\* api.js:159-171: read the source account, check existence and balance
GetFrom(c) ==
    /\ pc[c] = "getFrom"
    /\ LET r == req[c] IN
         IF ~Exists(accounts, r.fromAccountId)
         THEN /\ Fail(c, "ACCOUNT_NOT_FOUND_SOURCE")
              /\ UNCHANGED snap
         ELSE /\ snap' = [snap EXCEPT ![c] =
                            [NoSnap EXCEPT
                               !.fromBal = accounts[r.fromAccountId].balance,
                               !.fromVer = accounts[r.fromAccountId].version]]
              /\ IF InsufficientBalance(accounts[r.fromAccountId].balance, r.amount)
                 THEN Fail(c, "INSUFFICIENT_BALANCE")
                 ELSE /\ pc' = [pc EXCEPT ![c] = "getTo"]
                      /\ UNCHANGED result
    /\ UNCHANGED <<accounts, ledger, clock, req, attempts,
                   serial, store0, createdAt, users, returned, page, auth>>

\* variant: the store locks every document a running transaction has read
\* (pessimistic locking) and a read waits for the lock; the documents are
\* locked in the order the body reads them, source first
GetToLocking(c) ==
    /\ pc[c] = "getTo"
    /\ \A d \in DOMAIN pc \ {c} :
         ~(pc[d] \in {"getTo", "commit"}
           /\ req[c].toAccountId \in {req[d].fromAccountId} \cup
                (IF pc[d] = "commit" THEN {req[d].toAccountId} ELSE {}))
    /\ LET r == req[c] IN
         IF ~Exists(accounts, r.toAccountId)
         THEN /\ Fail(c, "ACCOUNT_NOT_FOUND_DESTINATION")
              /\ UNCHANGED <<clock, snap>>
         ELSE /\ snap' = [snap EXCEPT ![c] =
                            [@ EXCEPT
                               !.toBal = accounts[r.toAccountId].balance,
                               !.toVer = accounts[r.toAccountId].version,
                               !.toUser = accounts[r.toAccountId].userId,
                               !.debitId = DebitRef(clock),
                               !.creditId = CreditRef(clock)]]
              /\ pc' = [pc EXCEPT ![c] = "commit"]
              /\ UNCHANGED <<clock, result>>
    /\ UNCHANGED <<accounts, ledger, req, attempts, serial, store0, createdAt, users, returned, page, auth>>

\* variant: the debit is written with updateDoc, outside the transaction,
\* before the destination is looked up
GetToDebitFirst(c) ==
    /\ pc[c] = "getTo"
    /\ LET r == req[c] IN
         /\ accounts' = UpdateBalance(accounts, r.fromAccountId,
                                      NewFromBalance(snap[c].fromBal, r.amount))
         /\ IF ~Exists(accounts, r.toAccountId)
            THEN /\ Fail(c, "ACCOUNT_NOT_FOUND_DESTINATION")
                 /\ UNCHANGED snap
            ELSE /\ snap' = [snap EXCEPT ![c] =
                               [@ EXCEPT
                                  !.fromVer = @ + 1,
                                  !.toBal = accounts'[r.toAccountId].balance,
                                  !.toVer = accounts'[r.toAccountId].version,
                                  !.toUser = accounts'[r.toAccountId].userId,
                                  !.debitId = DebitRef(clock),
                                  !.creditId = CreditRef(clock)]]
                 /\ pc' = [pc EXCEPT ![c] = "commit"]
                 /\ UNCHANGED result
    /\ UNCHANGED <<ledger, clock, req, attempts, serial, store0, createdAt, users, returned, page, auth>>

\* api.js:174-227: read the destination account, stage the two balance
\* updates and the two ledger documents; Date.now() is read twice
GetTo(c) ==
    /\ pc[c] = "getTo"
    /\ LET r == req[c] IN
         IF ~Exists(accounts, r.toAccountId)
         THEN /\ Fail(c, "ACCOUNT_NOT_FOUND_DESTINATION")
              /\ UNCHANGED <<clock, snap>>
         ELSE \E now2 \in clock .. (IF clock < MaxClock THEN clock + 1 ELSE clock) :
              /\ snap' = [snap EXCEPT ![c] =
                            [@ EXCEPT
                               !.toBal = accounts[r.toAccountId].balance,
                               !.toVer = accounts[r.toAccountId].version,
                               !.toUser = accounts[r.toAccountId].userId,
                               !.debitId = DebitRef(clock),
                               !.creditId = CreditRef(now2)]]
              /\ clock' = now2
              /\ pc' = [pc EXCEPT ![c] = "commit"]
              /\ UNCHANGED result
    /\ UNCHANGED <<accounts, ledger, req, attempts, serial, store0, createdAt, users, returned, page, auth>>

\* api.js:157 and 228-230: runTransaction commits the staged writes as one
\* atomic unit when the documents read are unchanged, and returns the result
CommitOk(c) ==
    /\ pc[c] = "commit"
    /\ ReadsCurrent(accounts, req[c], snap[c])
    /\ accounts' = StagedBalances(accounts, req[c], snap[c])
    /\ ledger' = StagedLedger(ledger, req[c], snap[c])
    /\ serial' = SerialTransfer(serial, req[c], snap[c].debitId, snap[c].creditId)
    /\ pc' = [pc EXCEPT ![c] = "done"]
    /\ result' = [result EXCEPT ![c] = "success"]
    /\ createdAt' = StampedAt(createdAt, {snap[c].debitId, snap[c].creditId},
                              ServerTimestamp(createdAt))
    /\ UNCHANGED <<clock, req, snap, attempts, store0, users, returned, page, auth>>

\* variant: runTransaction is called with {maxAttempts: 1}, and the first
\* conflict ends the call
CommitConflictNoRetry(c) ==
    /\ pc[c] = "commit"
    /\ ~ReadsCurrent(accounts, req[c], snap[c])
    /\ attempts' = [attempts EXCEPT ![c] = @ + 1]
    /\ snap' = [snap EXCEPT ![c] = NoSnap]
    /\ IF attempts[c] + 1 < 1
       THEN /\ pc' = [pc EXCEPT ![c] = "getFrom"]
            /\ UNCHANGED result
       ELSE /\ pc' = [pc EXCEPT ![c] = "done"]
            /\ result' = [result EXCEPT ![c] = "TRANSFER_ERROR"]
    /\ UNCHANGED <<accounts, ledger, clock, req, serial, store0, createdAt, users, returned, page, auth>>

\* api.js:157 and 231-238: a document read was changed by another commit;
\* runTransaction runs the body again, and gives up after MaxAttempts
CommitConflict(c) ==
    /\ pc[c] = "commit"
    /\ ~ReadsCurrent(accounts, req[c], snap[c])
    /\ attempts' = [attempts EXCEPT ![c] = @ + 1]
    /\ snap' = [snap EXCEPT ![c] = NoSnap]
    /\ IF attempts[c] + 1 < MaxAttempts
       THEN /\ pc' = [pc EXCEPT ![c] = "getFrom"]
            /\ UNCHANGED result
       ELSE /\ pc' = [pc EXCEPT ![c] = "done"]
            /\ result' = [result EXCEPT ![c] = "TRANSFER_ERROR"]
    /\ UNCHANGED <<accounts, ledger, clock, req, serial, store0, createdAt, users, returned, page, auth>>

\* variant: the two balances are written one after the other with updateDoc,
\* and the store becomes unreachable after the first
StoreUnavailableAfterDebit(c) ==
    /\ pc[c] \in {"getFrom", "getTo", "commit"}
    /\ pc' = [pc EXCEPT ![c] = "done"]
    /\ result' = [result EXCEPT ![c] = "TRANSFER_ERROR"]
    /\ snap' = [snap EXCEPT ![c] = NoSnap]
    /\ accounts' = IF pc[c] = "commit"
                   THEN UpdateBalance(accounts, req[c].fromAccountId,
                                      NewFromBalance(snap[c].fromBal, req[c].amount))
                   ELSE accounts
    /\ UNCHANGED <<ledger, clock, req, attempts, serial, store0, createdAt, users, returned, page, auth>>

\* api.js:238: the store cannot be reached; the error is not a business
\* error and is reported as TRANSFER_ERROR
StoreUnavailable(c) ==
    /\ pc[c] \in {"getFrom", "getTo", "commit"}
    /\ pc' = [pc EXCEPT ![c] = "done"]
    /\ result' = [result EXCEPT ![c] = "TRANSFER_ERROR"]
    /\ snap' = [snap EXCEPT ![c] = NoSnap]
    /\ UNCHANGED <<accounts, ledger, clock, req, attempts,
                   serial, store0, createdAt, users, returned, page, auth>>

Next ==
    \/ Tick
    \/ \E c \in DOMAIN pc : Begin(c)
    \/ \E c \in DOMAIN pc : GetFrom(c)
    \/ \E c \in DOMAIN pc : GetTo(c)
    \/ \E c \in DOMAIN pc : CommitOk(c)
    \/ \E c \in DOMAIN pc : CommitConflict(c)
    \/ \E c \in DOMAIN pc : StoreUnavailable(c)

Spec == Init /\ [][Next]_vars

\* ------------------------------------------------- N concurrent transfers
\* N calls of createTransfer are in flight at once, all of amount a from the
\* account "A" with balance B, each to a destination of its own, N * a > B
MaxContenders == 6
DestNames == <<"d1", "d2", "d3", "d4", "d5", "d6", "d7", "d8">>
Dest(c) == DestNames[c]
DestNumber(id) ==
    IF id = "A" THEN 0 ELSE CHOOSE c \in DOMAIN DestNames : DestNames[c] = id

InitContended ==
    \E n \in 2 .. MaxContenders, a \in 1 .. MaxAmount :
      \E b \in 0 .. n * a - 1 :
        /\ accounts = [id \in {"A"} \cup {Dest(c) : c \in 1 .. n} |->
                         AccountDoc("u1", AccountNumber(0, DestNumber(id)),
                                    IF id = "A" THEN b ELSE 0)]
        /\ store0 = accounts
        /\ ledger = << >>
        /\ clock = MaxClock
        /\ pc = [c \in 1 .. n |-> "getFrom"]
        /\ req = [c \in 1 .. n |->
                    [fromAccountId |-> "A", toAccountId |-> Dest(c),
                     amount |-> a, userId |-> "u1"]]
        /\ snap = [c \in 1 .. n |-> NoSnap]
        /\ attempts = [c \in 1 .. n |-> 0]
        /\ result = [c \in 1 .. n |-> "none"]
        /\ serial = [accounts |-> accounts, ledger |-> << >>]
        /\ createdAt = << >>
        /\ users = [u \in {"u1"} |-> UserDoc]
        /\ returned = NoneReturned
        /\ page = NoPage
        /\ auth = NoAuth

\* The N calls differ only in the name of their destination, so every
\* behaviour is, up to a renaming of the calls, one in which the calls that
\* commit do so in the order of their numbers: only those are explored.
Succeeded == {c \in DOMAIN pc : result[c] = "success"}
CommitsInOrder(c) == c = Cardinality(Succeeded) + 1

NextContended ==
    \/ \E c \in DOMAIN pc : GetFrom(c)
    \/ \E c \in DOMAIN pc : GetTo(c)
    \/ \E c \in DOMAIN pc : CommitsInOrder(c) /\ CommitOk(c)
    \/ \E c \in DOMAIN pc : CommitConflict(c)

SpecContended == InitContended /\ [][NextContended]_vars

\* the same calls under a scheduler that lets every call that can take a
\* step take one: each await of createTransfer is resolved in the end
SpecContendedFair == SpecContended /\ WF_vars(NextContended)

\* the same calls when the store may become unreachable during a call
NextUnreliable ==
    \/ NextContended
    \/ \E c \in DOMAIN pc : StoreUnavailable(c)

SpecUnreliable == InitContended /\ [][NextUnreliable]_vars

\* ------------------------------------------------------ account creation
MaxAccounts == 2       \* createAccount calls of one behaviour
MaxRandom == 1         \* largest value drawn from Math.random() * 10000
NewIds == <<"n1", "n2", "n3", "n4">>    \* ids that addDoc generates
CheckingId == [u1 |-> "u1_checking", u2 |-> "u2_checking", u3 |-> "u3_checking"]
AccountTypeInputs == {"savings", " business "}
CurrencyInputs == {"", " EUR "}
StatusInputs == {"active", "frozen"}

\* the accountData a caller may pass to createAccount: the fields it reads
\* and two it does not read
AccountInputs ==
    [userId : Users, accountType : AccountTypeInputs, currency : CurrencyInputs,
     balance : 0 .. MaxBalance, status : StatusInputs]

\* variant: the document is built by spreading accountData over the defaults
NewAccountDocSpread(data, number) ==
    [userId |-> data.userId, accountType |-> Sanitize(data.accountType),
     accountNumber |-> number, balance |-> data.balance,
     currency |-> IF Sanitize(data.currency) = "" THEN "USD"
                  ELSE Sanitize(data.currency),
     status |-> data.status, version |-> 0]

\* api.js:67-75: sanitizedData, the document createAccount adds
NewAccountDoc(data, number) ==
    [userId |-> data.userId, accountType |-> Sanitize(data.accountType),
     accountNumber |-> number, balance |-> 0,
     currency |-> IF Sanitize(data.currency) = "" THEN "USD"
                  ELSE Sanitize(data.currency),
     status |-> "active", version |-> 0]

AddedIds == {NewIds[i] : i \in DOMAIN NewIds} \cap DOMAIN accounts

\* api.js:62-83: createAccount(accountData) adds a document under a new id
CreateAccount(data, random) ==
    /\ Cardinality(AddedIds) < MaxAccounts
    /\ LET id == NewIds[Cardinality(AddedIds) + 1]
           document == NewAccountDoc(data, AccountNumber(clock, random))
       IN /\ accounts' = SetDoc(accounts, id, document)
          /\ serial' = [serial EXCEPT !.accounts = SetDoc(@, id, document)]
          /\ returned' = [op |-> "createAccount", arg |-> data, id |-> id]
    /\ UNCHANGED <<ledger, clock, pc, req, snap, attempts, result, store0,
                   createdAt, users, page, auth>>

\* auth.js:83-133: registerUser creates the user in Firebase Auth under a
\* new uid, writes the user document and the default checking account
RegisterUser(uid, random) ==
    /\ uid \notin DOMAIN users
    /\ LET document == AccountDoc(uid, AccountNumber(clock, random), 0)
       IN /\ users' = SetDoc(users, uid, UserDoc)
          /\ accounts' = SetDoc(accounts, CheckingId[uid], document)
          /\ serial' = [serial EXCEPT
                          !.accounts = SetDoc(@, CheckingId[uid], document)]
    /\ UNCHANGED <<ledger, clock, pc, req, snap, attempts, result, store0,
                   createdAt, returned, page, auth>>

InitAccounts ==
    /\ accounts = << >>
    /\ store0 = accounts
    /\ ledger = << >>
    /\ clock = 0
    /\ pc = [c \in Calls |-> "idle"]
    /\ req = [c \in Calls |-> NoReq]
    /\ snap = [c \in Calls |-> NoSnap]
    /\ attempts = [c \in Calls |-> 0]
    /\ result = [c \in Calls |-> "none"]
    /\ serial = [accounts |-> accounts, ledger |-> << >>]
    /\ createdAt = << >>
    /\ users = << >>
    /\ returned = NoneReturned
    /\ page = NoPage
    /\ auth = NoAuth

NextAccounts ==
    \/ Tick
    \/ \E data \in AccountInputs, random \in 0 .. MaxRandom :
         CreateAccount(data, random)
    \/ \E uid \in Users, random \in 0 .. MaxRandom : RegisterUser(uid, random)

SpecAccounts == InitAccounts /\ [][NextAccounts]_vars

\* ---------------------------------------------------------------- queries
MaxLimit == 2          \* largest limit passed to a listing

\* document names compare as strings: the later clock value first, and
\* "_debit" after "_credit"
NameAfter(x, y) == x[1] > y[1] \/ (x[1] = y[1] /\ x[2] = "debit" /\ y[2] = "credit")
\* variant: orderBy('createdAt', 'asc')
ComesFirstAscending(stamps, x, y) ==
    \/ stamps[x] < stamps[y]
    \/ stamps[x] = stamps[y] /\ (x = y \/ NameAfter(y, x))

\* orderBy('createdAt', 'desc'): a document comes before another when its
\* createdAt is later, or equal with the greater document name
ComesFirst(stamps, x, y) ==
    \/ stamps[x] > stamps[y]
    \/ stamps[x] = stamps[y] /\ (x = y \/ NameAfter(x, y))

\* the first n documents of ids in that order, as {id, ...doc.data()}
RECURSIVE Ordered(_, _, _, _)
Ordered(led, stamps, ids, n) ==
    IF ids = {} \/ n = 0 THEN << >>
    ELSE LET x == CHOOSE y \in ids : \A z \in ids : ComesFirst(stamps, y, z)
         IN <<[id |-> x, data |-> led[x], createdAt |-> stamps[x]]>>
            \o Ordered(led, stamps, ids \ {x}, n - 1)

\* api.js:96-108 and 125-137: where(field, '==', value),
\* orderBy('createdAt', 'desc'), limit(n)
QueryTransactions(led, stamps, field, value, n) ==
    Ordered(led, stamps, {id \in DOMAIN led : led[id][field] = value}, n)

\* api.js:91-112
AccountTransactions(led, stamps, accountId, n) ==
    QueryTransactions(led, stamps, "accountId", accountId, n)

\* api.js:120-141
UserTransactions(led, stamps, userId, n) ==
    QueryTransactions(led, stamps, "userId", userId, n)

\* variant: the read also records the access on the account document
GetAccountByIdTouching(accountId) ==
    /\ returned' = [op |-> "getAccountById", arg |-> accountId,
                    value |-> IF Exists(accounts, accountId)
                              THEN <<[id |-> accountId, data |-> accounts[accountId]]>>
                              ELSE << >>]
    /\ accounts' = IF Exists(accounts, accountId)
                   THEN [accounts EXCEPT ![accountId].version = @ + 1]
                   ELSE accounts
    /\ UNCHANGED <<ledger, clock, pc, req, snap, attempts, result,
                   serial, store0, createdAt, users, page, auth>>

\* api.js:40-55: getAccountById returns {id, ...data} or null
GetAccountById(accountId) ==
    /\ returned' = [op |-> "getAccountById", arg |-> accountId,
                    value |-> IF Exists(accounts, accountId)
                              THEN <<[id |-> accountId, data |-> accounts[accountId]]>>
                              ELSE << >>]
    /\ UNCHANGED <<accounts, ledger, clock, pc, req, snap, attempts, result,
                   serial, store0, createdAt, users, page, auth>>

\* api.js:18-33: getUserAccounts returns the accounts of the user (the
\* order of the array is that of the document ids and is not kept here)
GetUserAccounts(userId) ==
    /\ returned' = [op |-> "getUserAccounts", arg |-> userId,
                    value |-> {[id |-> id, data |-> accounts[id]] :
                                 id \in {x \in DOMAIN accounts :
                                           accounts[x].userId = userId}}]
    /\ UNCHANGED <<accounts, ledger, clock, pc, req, snap, attempts, result,
                   serial, store0, createdAt, users, page, auth>>

\* api.js:91-112
GetAccountTransactions(accountId, n) ==
    /\ returned' = [op |-> "getAccountTransactions", arg |-> accountId,
                    limit |-> n,
                    value |-> AccountTransactions(ledger, createdAt, accountId, n)]
    /\ UNCHANGED <<accounts, ledger, clock, pc, req, snap, attempts, result,
                   serial, store0, createdAt, users, page, auth>>

\* api.js:120-141
GetUserTransactions(userId, n) ==
    /\ returned' = [op |-> "getUserTransactions", arg |-> userId,
                    limit |-> n,
                    value |-> UserTransactions(ledger, createdAt, userId, n)]
    /\ UNCHANGED <<accounts, ledger, clock, pc, req, snap, attempts, result,
                   serial, store0, createdAt, users, page, auth>>

\* transfers between the two accounts, each requested by the owner of its
\* source, are in flight while the queries are called
OtherAccount(id) == CHOOSE x \in ExistingIds : x # id

InitReads ==
    \E source \in [Calls -> ExistingIds] :
      /\ accounts = [id \in ExistingIds |->
                       AccountDoc(Owner[id],
                                  AccountNumber(0, IF id = "a" THEN 0 ELSE 1),
                                  MaxBalance)]
      /\ store0 = accounts
      /\ ledger = << >>
      /\ clock = 0
      /\ pc = [c \in Calls |-> "getFrom"]
      /\ req = [c \in Calls |->
                  [fromAccountId |-> source[c],
                   toAccountId |-> OtherAccount(source[c]),
                   amount |-> MaxAmount, userId |-> Owner[source[c]]]]
      /\ snap = [c \in Calls |-> NoSnap]
      /\ attempts = [c \in Calls |-> 0]
      /\ result = [c \in Calls |-> "none"]
      /\ serial = [accounts |-> accounts, ledger |-> << >>]
      /\ createdAt = << >>
      /\ users = [u \in Users |-> UserDoc]
      /\ returned = NoneReturned
      /\ page = NoPage
      /\ auth = NoAuth

ReadStep ==
    \/ \E id \in AllIds : GetAccountById(id)
    \/ \E u \in Users : GetUserAccounts(u)
    \/ \E id \in AllIds, n \in 1 .. MaxLimit : GetAccountTransactions(id, n)
    \/ \E u \in Users, n \in 1 .. MaxLimit : GetUserTransactions(u, n)

NextReads ==
    \/ Tick
    \/ \E c \in DOMAIN pc : GetFrom(c)
    \/ \E c \in DOMAIN pc : GetTo(c)
    \/ \E c \in DOMAIN pc : CommitOk(c)
    \/ \E c \in DOMAIN pc : CommitConflict(c)
    \/ \E id \in AllIds : GetAccountById(id)
    \/ \E u \in Users : GetUserAccounts(u)
    \/ \E id \in AllIds, n \in 1 .. MaxLimit : GetAccountTransactions(id, n)
    \/ \E u \in Users, n \in 1 .. MaxLimit : GetUserTransactions(u, n)

SpecReads == InitReads /\ [][NextReads]_vars

\* ------------------------------------------------------ the API as a whole
\* api.js:389-400: updateUserStatus(userId, status) updates the user document
UpdateUserStatus(userId, status) ==
    /\ userId \in DOMAIN users
    /\ users' = [users EXCEPT ![userId].status = Sanitize(status)]
    /\ UNCHANGED <<accounts, ledger, clock, pc, req, snap, attempts, result,
                   serial, store0, createdAt, returned, page, auth>>

\* api.js:369-380: updateUserRole(userId, role) updates the user document
UpdateUserRole(userId, role) ==
    /\ userId \in DOMAIN users
    /\ users' = [users EXCEPT ![userId].role = Sanitize(role)]
    /\ UNCHANGED <<accounts, ledger, clock, pc, req, snap, attempts, result,
                   serial, store0, createdAt, returned, page, auth>>

\* the inputs of the calls made next to the transfers
NewUsers == {"u3"}
ApiAccountInputs ==
    {d \in AccountInputs : d.userId = "u1" /\ d.accountType = "savings"
                            /\ d.currency = "" /\ d.balance = MaxBalance
                            /\ d.status = "frozen"}

\* two accounts with money, and createTransfer calls that have entered
\* runTransaction with every pair of them as source and destination; the
\* queries write nothing and are left to SpecReads
InitApi ==
    \E source \in [Calls -> ExistingIds], target \in [Calls -> ExistingIds] :
      /\ accounts = [id \in ExistingIds |->
                       AccountDoc(Owner[id],
                                  AccountNumber(0, IF id = "a" THEN 0 ELSE 1),
                                  MaxBalance)]
      /\ store0 = accounts
      /\ ledger = << >>
      /\ clock = 0
      /\ pc = [c \in Calls |-> "getFrom"]
      /\ req = [c \in Calls |->
                  [fromAccountId |-> source[c], toAccountId |-> target[c],
                   amount |-> MaxAmount, userId |-> Owner[source[c]]]]
      /\ snap = [c \in Calls |-> NoSnap]
      /\ attempts = [c \in Calls |-> 0]
      /\ result = [c \in Calls |-> "none"]
      /\ serial = [accounts |-> accounts, ledger |-> << >>]
      /\ createdAt = << >>
      /\ users = [u \in Users |-> UserDoc]
      /\ returned = NoneReturned
      /\ page = NoPage
      /\ auth = NoAuth

NextApi ==
    \/ Tick
    \/ \E c \in DOMAIN pc : GetFrom(c)
    \/ \E c \in DOMAIN pc : GetTo(c)
    \/ \E c \in DOMAIN pc : CommitOk(c)
    \/ \E c \in DOMAIN pc : CommitConflict(c)
    \/ \E data \in ApiAccountInputs : CreateAccount(data, 0)
    \/ \E uid \in NewUsers : RegisterUser(uid, 0)
    \/ \E u \in DOMAIN users \cap NewUsers : UpdateUserStatus(u, "suspended")
    \/ \E u \in DOMAIN users \cap NewUsers : UpdateUserRole(u, "admin")

SpecApi == InitApi /\ [][NextApi]_vars

\* ------------------------------------------------------ opposite transfers
\* api.js:157-181: two createTransfer calls have entered runTransaction, one
\* from a to b and one from b to a
OppositeSource == [c \in Calls |-> IF c % 2 = 1 THEN "a" ELSE "b"]

InitOpposite ==
    \E opening \in [ExistingIds -> 0 .. MaxBalance] :
      /\ accounts = [id \in ExistingIds |->
                       AccountDoc(Owner[id],
                                  AccountNumber(0, IF id = "a" THEN 0 ELSE 1),
                                  opening[id])]
      /\ store0 = accounts
      /\ ledger = << >>
      /\ clock = 0
      /\ pc = [c \in Calls |-> "getFrom"]
      /\ req = [c \in Calls |->
                  [fromAccountId |-> OppositeSource[c],
                   toAccountId |-> OtherAccount(OppositeSource[c]),
                   amount |-> MaxAmount, userId |-> Owner[OppositeSource[c]]]]
      /\ snap = [c \in Calls |-> NoSnap]
      /\ attempts = [c \in Calls |-> 0]
      /\ result = [c \in Calls |-> "none"]
      /\ serial = [accounts |-> accounts, ledger |-> << >>]
      /\ createdAt = << >>
      /\ users = [u \in Users |-> UserDoc]
      /\ returned = NoneReturned
      /\ page = NoPage
      /\ auth = NoAuth

\* the steps of one call
CallStep(c) == GetFrom(c) \/ GetTo(c) \/ CommitOk(c) \/ CommitConflict(c)

NextOpposite ==
    \/ Tick
    \/ \E c \in DOMAIN pc : GetFrom(c)
    \/ \E c \in DOMAIN pc : GetTo(c)
    \/ \E c \in DOMAIN pc : CommitOk(c)
    \/ \E c \in DOMAIN pc : CommitConflict(c)

\* the event loop runs every continuation that is ready, and the store
\* answers every request
SpecOpposite ==
    InitOpposite /\ [][NextOpposite]_vars /\ \A c \in Calls : WF_vars(CallStep(c))

\* ------------------------------------------------------ transfers in pairs
\* four accounts with money and createTransfer calls that have entered
\* runTransaction, each between two distinct accounts
PairIds == {"a", "b", "c", "d"}
PairOwner == [a |-> "u1", b |-> "u2", c |-> "u1", d |-> "u2"]
PairNumber == [a |-> 0, b |-> 1, c |-> 2, d |-> 3]

InitPairs ==
    \E source \in [Calls -> PairIds], target \in [Calls -> PairIds] :
      /\ \A c \in Calls : source[c] # target[c]
      /\ accounts = [id \in PairIds |->
                       AccountDoc(PairOwner[id], AccountNumber(0, PairNumber[id]),
                                  MaxBalance)]
      /\ store0 = accounts
      /\ ledger = << >>
      /\ clock = 0
      /\ pc = [c \in Calls |-> "getFrom"]
      /\ req = [c \in Calls |->
                  [fromAccountId |-> source[c], toAccountId |-> target[c],
                   amount |-> MaxAmount, userId |-> PairOwner[source[c]]]]
      /\ snap = [c \in Calls |-> NoSnap]
      /\ attempts = [c \in Calls |-> 0]
      /\ result = [c \in Calls |-> "none"]
      /\ serial = [accounts |-> accounts, ledger |-> << >>]
      /\ createdAt = << >>
      /\ users = [u \in Users |-> UserDoc]
      /\ returned = NoneReturned
      /\ page = NoPage
      /\ auth = NoAuth

SpecPairs == InitPairs /\ [][NextOpposite]_vars

\* ------------------------------------------------------ from an empty store
\* api.js:148-157: createTransfer is called between two distinct accounts
\* of the store, by the owner of the source, with an amount that is not
\* negative
BeginBetweenAccounts(c) ==
    /\ pc[c] = "idle"
    /\ \E f \in DOMAIN accounts, t \in DOMAIN accounts, a \in 0 .. MaxAmount :
         /\ f # t
         /\ req' = [req EXCEPT ![c] = [fromAccountId |-> f, toAccountId |-> t,
                                       amount |-> a,
                                       userId |-> accounts[f].userId]]
    /\ pc' = [pc EXCEPT ![c] = "getFrom"]
    /\ UNCHANGED <<accounts, ledger, clock, snap, attempts, result,
                   serial, store0, createdAt, users, returned, page, auth>>

NextClosed ==
    \/ Tick
    \/ \E data \in ApiAccountInputs : CreateAccount(data, 0)
    \/ \E uid \in Users : RegisterUser(uid, 0)
    \/ \E c \in DOMAIN pc : BeginBetweenAccounts(c)
    \/ \E c \in DOMAIN pc : GetFrom(c)
    \/ \E c \in DOMAIN pc : GetTo(c)
    \/ \E c \in DOMAIN pc : CommitOk(c)
    \/ \E c \in DOMAIN pc : CommitConflict(c)

SpecClosed == InitAccounts /\ [][NextClosed]_vars

\* ------------------------------------------------------- two currencies
\* api.js:67-75: accounts as createAccount writes them, two in USD and one
\* in EUR, here with money
CurrencyIds == {"a", "b", "e"}
CurrencyOf == [a |-> "USD", b |-> "USD", e |-> "EUR"]
CurrencyOwner == [a |-> "u1", b |-> "u2", e |-> "u2"]
CurrencyNumber == [a |-> 0, b |-> 1, e |-> 2]
Currencies == {"USD", "EUR"}

\* the sum of the balances of the accounts held in one currency
CurrencyTotal(accts, currency) ==
    SumOver(Balances(accts), {id \in DOMAIN accts : accts[id].currency = currency})

InitCurrency ==
    /\ accounts = [id \in CurrencyIds |->
                     [AccountDoc(CurrencyOwner[id],
                                 AccountNumber(0, CurrencyNumber[id]), MaxBalance)
                        EXCEPT !.currency = CurrencyOf[id]]]
    /\ store0 = accounts
    /\ ledger = << >>
    /\ clock = 0
    /\ pc = [c \in Calls |-> "idle"]
    /\ req = [c \in Calls |-> NoReq]
    /\ snap = [c \in Calls |-> NoSnap]
    /\ attempts = [c \in Calls |-> 0]
    /\ result = [c \in Calls |-> "none"]
    /\ serial = [accounts |-> accounts, ledger |-> << >>]
    /\ createdAt = << >>
    /\ users = [u \in Users |-> UserDoc]
    /\ returned = NoneReturned
    /\ page = NoPage
    /\ auth = NoAuth

NextCurrency ==
    \/ Tick
    \/ \E c \in DOMAIN pc : BeginBetweenAccounts(c)
    \/ \E c \in DOMAIN pc : GetFrom(c)
    \/ \E c \in DOMAIN pc : GetTo(c)
    \/ \E c \in DOMAIN pc : CommitOk(c)
    \/ \E c \in DOMAIN pc : CommitConflict(c)

SpecCurrency == InitCurrency /\ [][NextCurrency]_vars

\* ------------------------------------------------------ the transfers page
\* a JavaScript value of the form: a string, or a number (NaN included)
String(text) == [kind |-> "string", text |-> text, nan |-> FALSE, num |-> 0]
Number(num) == [kind |-> "number", text |-> "", nan |-> FALSE, num |-> num]
NaN == [kind |-> "number", text |-> "", nan |-> TRUE, num |-> 0]

\* String.prototype.trim on the texts entered here (firebase.js:259)
Trim(text) ==
    CASE text = " u2_checking " -> "u2_checking"
      [] text = "  " -> ""
      [] OTHER -> text

\* parseFloat on the texts entered here (firebase.js:260): the longest
\* numeric prefix, NaN if there is none
ParseFloat(text) ==
    CASE text = "-1" -> Number(0 - 1)
      [] text = "0" -> Number(0)
      [] text = "1" -> Number(1)
      [] text = "1x" -> Number(1)
      [] text = "2" -> Number(2)
      [] text = "3" -> Number(3)
      [] OTHER -> NaN

\* !value
Falsy(value) ==
    IF value.kind = "string" THEN value.text = "" ELSE value.nan \/ value.num = 0

\* variant: a rule with required: true is passed over
RequiredRuleIgnored(value) == "pass"

\* part_001:254-257: the rule {required: true}; value.trim() is evaluated
\* when value is truthy, and a number has no method trim
RequiredRule(value) ==
    IF Falsy(value) THEN "error"
    ELSE IF value.kind = "string"
         THEN IF Trim(value.text) = "" THEN "error" ELSE "pass"
         ELSE "throw"

\* part_001:260-265: the rule {minLength}, passed over for a falsy value;
\* the length of a number is undefined and undefined < n is false
MinLengthRule(value, n) ==
    IF Falsy(value) THEN "pass"
    ELSE IF value.kind = "string" /\ Len(value.text) < n THEN "error" ELSE "pass"

\* firebase.js:282-290 with part_001:260 and 277-283: the validator of the
\* amount, passed over for a falsy value; a comparison with NaN is false
AmountRule(value, accountBalance) ==
    IF Falsy(value) THEN "pass"
    ELSE IF value.nan \/ value.num <= 0 THEN "error"
    ELSE IF ~accountBalance.nan /\ value.num > accountBalance.num THEN "error"
    ELSE "pass"

MinAccountIdLength == 4

\* firebase.js:264-266: the balance shown in the selected option; the first
\* option, with value "", has no balance
AccountBalance(options, fromAccountId) ==
    IF fromAccountId \in DOMAIN options THEN Number(options[fromAccountId])
    ELSE IF fromAccountId = "" THEN NaN ELSE Number(0)

\* firebase.js:257-262: transferData
TransferData(form) ==
    [fromAccountId |-> form.fromAccount, toAccountId |-> Trim(form.toAccount),
     amount |-> ParseFloat(form.amount)]

\* part_001:246-291 called as in firebase.js:269-293: every rule of every
\* field is applied in turn; an exception of a rule leaves validateForm
ValidateForm(data, accountBalance) ==
    LET applied ==
          [fromAccountId |-> {RequiredRule(String(data.fromAccountId))},
           toAccountId |-> {RequiredRule(String(data.toAccountId)),
                            MinLengthRule(String(data.toAccountId),
                                          MinAccountIdLength)},
           amount |-> {RequiredRule(data.amount),
                       AmountRule(data.amount, accountBalance)}]
    IN [threw |-> \E field \in DOMAIN applied : "throw" \in applied[field],
        errors |-> {field \in DOMAIN applied : "error" \in applied[field]}]

\* firebase.js:211-229 and 232-246: loadTransfersData fills the options of
\* the source select with the accounts of the current user
LoadTransfersData ==
    /\ auth.currentUser # "null"
    /\ page' = [page EXCEPT !.options =
                  [id \in {x \in DOMAIN accounts :
                             accounts[x].userId = auth.currentUser}
                     |-> accounts[id].balance]]
    /\ UNCHANGED <<accounts, ledger, clock, pc, req, snap, attempts, result,
                   serial, store0, createdAt, users, returned, auth>>

\* firebase.js:251-330: handleTransfer up to the call of createTransfer; the
\* TypeError of validateForm leaves the handler before anything is shown
HandleTransfer(c, form) ==
    LET data == TransferData(form)
        validation == ValidateForm(data, AccountBalance(page.options,
                                                        data.fromAccountId))
    IN /\ pc[c] = "idle"
       /\ IF validation.threw
          THEN /\ page' = [page EXCEPT !.form = form, !.outcome = "TypeError",
                                       !.errors = {}]
               /\ UNCHANGED <<pc, req>>
          ELSE IF validation.errors # {}
          THEN /\ page' = [page EXCEPT !.form = form, !.outcome = "errors",
                                       !.errors = validation.errors]
               /\ UNCHANGED <<pc, req>>
          ELSE IF data.fromAccountId = data.toAccountId
          THEN /\ page' = [page EXCEPT !.form = form, !.outcome = "errors",
                                       !.errors = {"toAccountId"}]
               /\ UNCHANGED <<pc, req>>
          ELSE /\ page' = [page EXCEPT !.form = form, !.outcome = "called",
                                       !.errors = {}]
               /\ req' = [req EXCEPT ![c] =
                            [fromAccountId |-> data.fromAccountId,
                             toAccountId |-> data.toAccountId,
                             amount |-> data.amount.num,
                             userId |-> auth.currentUser]]
               /\ pc' = [pc EXCEPT ![c] = "getFrom"]
       /\ UNCHANGED <<accounts, ledger, clock, snap, attempts, result,
                      serial, store0, createdAt, users, returned, auth>>

\* what can be entered in the form
FormInputs ==
    [fromAccount : {"", "u1_checking"},
     toAccount : {"", "abc", "u1_checking", " u2_checking "},
     amount : {"", "abc", "-1", "0", "1", "1x", "2", "3"}]

\* auth.js after initAuth has resolved with a signed-in user
SignedIn(uid) ==
    [NoAuth EXCEPT !.currentUser = uid, !.authInitPromise = 1,
                   !.authStateKnown = TRUE, !.promises = 1,
                   !.settled = <<"resolved">>, !.observers = 1,
                   !.lastEvent = uid, !.events = 1, !.returns = <<1>>]

\* the page is opened by u1; both users have their checking account
InitPage ==
    \E opening \in [Users -> 0 .. MaxBalance] :
      /\ accounts = [id \in {CheckingId[u] : u \in Users} |->
                       LET u == CHOOSE v \in Users : CheckingId[v] = id
                       IN AccountDoc(u, AccountNumber(0, IF u = "u1" THEN 0 ELSE 1),
                                     opening[u])]
      /\ store0 = accounts
      /\ ledger = << >>
      /\ clock = 0
      /\ pc = [c \in Calls |-> "idle"]
      /\ req = [c \in Calls |-> NoReq]
      /\ snap = [c \in Calls |-> NoSnap]
      /\ attempts = [c \in Calls |-> 0]
      /\ result = [c \in Calls |-> "none"]
      /\ serial = [accounts |-> accounts, ledger |-> << >>]
      /\ createdAt = << >>
      /\ users = [u \in Users |-> UserDoc]
      /\ returned = NoneReturned
      /\ page = NoPage
      /\ auth = SignedIn("u1")

NextPage ==
    \/ LoadTransfersData
    \/ \E c \in DOMAIN pc, form \in FormInputs : HandleTransfer(c, form)

SpecPage == InitPage /\ [][NextPage]_vars

\* ------------------------------------------------------------- auth.js
MaxInitCalls == 3      \* initAuth calls of one behaviour
MaxEvents == 3         \* auth events the SDK delivers in one behaviour

\* replace the state of promise p
Settle(settled, p, how) == [settled EXCEPT ![p] = how]

\* auth.js:58-61: the promise of initAuth is resolved by the first callback
\* that gets this far
ResolveOnce(a) ==
    IF a.authInitPromise # 0 /\ a.settled[a.authInitPromise] = "pending"
    THEN Settle(a.settled, a.authInitPromise, "resolved")
    ELSE a.settled

\* variant: initAuth does not look at authInitPromise
InitAuthUnguarded ==
    /\ Len(auth.returns) < MaxInitCalls
    /\ auth' = [auth EXCEPT !.promises = @ + 1,
                            !.settled = Append(@, "pending"),
                            !.authInitPromise = auth.promises + 1,
                            !.initializing = auth.promises + 1,
                            !.returns = Append(@, auth.promises + 1)]
    /\ UNCHANGED <<accounts, ledger, clock, pc, req, snap, attempts, result,
                   serial, store0, createdAt, users, returned, page>>

\* auth.js:22-29 and 74: initAuth() returns authInitPromise if there is one;
\* otherwise it starts the initialization, whose promise it stores before
\* anything is awaited
InitAuth ==
    /\ Len(auth.returns) < MaxInitCalls
    /\ IF auth.authInitPromise # 0
       THEN auth' = [auth EXCEPT !.returns = Append(@, auth.authInitPromise)]
       ELSE auth' = [auth EXCEPT !.promises = @ + 1,
                                 !.settled = Append(@, "pending"),
                                 !.authInitPromise = auth.promises + 1,
                                 !.initializing = auth.promises + 1,
                                 !.returns = Append(@, auth.promises + 1)]
    /\ UNCHANGED <<accounts, ledger, clock, pc, req, snap, attempts, result,
                   serial, store0, createdAt, users, returned, page>>

\* auth.js:27-29 and 67-72: initializeFirebase or the import fails; the
\* promise is rejected and the catch handler resets the module state
InitAuthFails ==
    /\ auth.initializing # 0
    /\ auth' = [auth EXCEPT !.settled = Settle(@, auth.initializing, "rejected"),
                            !.authInitPromise = 0,
                            !.authStateKnown = FALSE,
                            !.initializing = 0]
    /\ UNCHANGED <<accounts, ledger, clock, pc, req, snap, attempts, result,
                   serial, store0, createdAt, users, returned, page>>

\* auth.js:44-47: the initialization gets as far as onAuthStateChanged
RegisterObserver ==
    /\ auth.initializing # 0
    /\ auth' = [auth EXCEPT !.observers = @ + 1, !.initializing = 0]
    /\ UNCHANGED <<accounts, ledger, clock, pc, req, snap, attempts, result,
                   serial, store0, createdAt, users, returned, page>>

\* auth.js:47-62: the SDK calls the observer with the new auth state; with a
\* user the callback awaits getUserData, without one it runs to its end
AuthEvent(user) ==
    /\ auth.observers > 0
    /\ auth.events < MaxEvents
    /\ user # auth.lastEvent
    /\ IF user = "null"
       THEN auth' = [auth EXCEPT !.lastEvent = user, !.events = @ + 1,
                                 !.currentUser = "null",
                                 !.authStateKnown = TRUE,
                                 !.settled = ResolveOnce(auth)]
       ELSE auth' = [auth EXCEPT !.lastEvent = user, !.events = @ + 1,
                                 !.awaiting = Append(@, user)]
    /\ UNCHANGED <<accounts, ledger, clock, pc, req, snap, attempts, result,
                   serial, store0, createdAt, users, returned, page>>

\* the sequence without its i-th element
Without(seq, i) == SubSeq(seq, 1, i - 1) \o SubSeq(seq, i + 1, Len(seq))

\* auth.js:49-61: getUserData has answered the callback of a sign-in event
\* and the callback runs to its end
UserDataArrives(i) ==
    /\ i \in DOMAIN auth.awaiting
    /\ auth' = [auth EXCEPT !.currentUser = auth.awaiting[i],
                            !.authStateKnown = TRUE,
                            !.settled = ResolveOnce(auth),
                            !.awaiting = Without(@, i)]
    /\ UNCHANGED <<accounts, ledger, clock, pc, req, snap, attempts, result,
                   serial, store0, createdAt, users, returned, page>>

\* auth.js:160-171: signOut() of the signed-in user; the SDK signs out and
\* calls the observer with null, then signOut sets currentUser to null
SignOut ==
    /\ auth.lastEvent \notin {"none", "null"}
    /\ auth.events < MaxEvents
    /\ auth' = [auth EXCEPT !.lastEvent = "null", !.events = @ + 1,
                            !.currentUser = "null",
                            !.authStateKnown = TRUE,
                            !.settled = ResolveOnce(auth)]
    /\ UNCHANGED <<accounts, ledger, clock, pc, req, snap, attempts, result,
                   serial, store0, createdAt, users, returned, page>>

\* auth.js:239-249
IsAuthenticated == auth.currentUser # "null"

InitAuthModule ==
    /\ accounts = << >>
    /\ store0 = accounts
    /\ ledger = << >>
    /\ clock = 0
    /\ pc = [c \in Calls |-> "idle"]
    /\ req = [c \in Calls |-> NoReq]
    /\ snap = [c \in Calls |-> NoSnap]
    /\ attempts = [c \in Calls |-> 0]
    /\ result = [c \in Calls |-> "none"]
    /\ serial = [accounts |-> accounts, ledger |-> << >>]
    /\ createdAt = << >>
    /\ users = [u \in Users |-> UserDoc]
    /\ returned = NoneReturned
    /\ page = NoPage
    /\ auth = NoAuth

NextAuth ==
    \/ InitAuth
    \/ InitAuthFails
    \/ RegisterObserver
    \/ \E user \in Users \cup {"null"} : AuthEvent(user)
    \/ \E i \in 1 .. MaxEvents : UserDataArrives(i)
    \/ SignOut

SpecAuth == InitAuthModule /\ [][NextAuth]_vars

\* ----------------------------------------------------------------- claims
Done(c) == pc[c] = "done"
AllDone == \A c \in DOMAIN pc : Done(c)
Answered(c) == Done(c) /\ result[c] # "TRANSFER_ERROR"
DebitPresent(c) ==
    /\ snap[c].debitId \in DOMAIN ledger
    /\ ledger[snap[c].debitId] = DebitEntry(req[c])
CreditPresent(c) ==
    /\ snap[c].creditId \in DOMAIN ledger
    /\ ledger[snap[c].creditId] = CreditEntry(req[c], snap[c].toUser)
EntriesOfType(t) == {id \in DOMAIN ledger : ledger[id].type = t}

\* C1 (as claimed): the sum of the balances of all accounts is the same in
\* every state reached by createTransfer calls as it was at the start.
C1_Conservation == TotalBalance(accounts) = TotalBalance(store0)

\* C2 (as claimed): N concurrent transfers of amount a from "A" with balance
\* B, N * a > B, end with exactly B div a successes, every other call failed
\* with INSUFFICIENT_BALANCE, and "A" left with B - (B div a) * a.
ContendedAmount == req[1].amount
ContendedQuota == store0["A"].balance \div ContendedAmount
C2_ExactlyFloorSucceed ==
    AllDone =>
      /\ Cardinality(Succeeded) = ContendedQuota
      /\ \A c \in DOMAIN pc \ Succeeded : result[c] = "INSUFFICIENT_BALANCE"
      /\ accounts["A"].balance =
           store0["A"].balance - ContendedQuota * ContendedAmount

\* C2 (amended): at most B div a calls succeed, "A" is left with B - k * a
\* for k successes, every other call failed with INSUFFICIENT_BALANCE or,
\* after MaxAttempts attempts aborted by a conflict, with TRANSFER_ERROR; and
\* when B div a < MaxAttempts exactly B div a calls succeed and all the
\* others fail with INSUFFICIENT_BALANCE.
C2_FloorUnlessContention ==
    AllDone =>
      /\ Cardinality(Succeeded) <= ContendedQuota
      /\ accounts["A"].balance =
           store0["A"].balance - Cardinality(Succeeded) * ContendedAmount
      /\ \A c \in DOMAIN pc \ Succeeded :
           \/ result[c] = "INSUFFICIENT_BALANCE"
           \/ result[c] = "TRANSFER_ERROR" /\ attempts[c] = MaxAttempts
      /\ ContendedQuota < MaxAttempts =>
           /\ Cardinality(Succeeded) = ContendedQuota
           /\ \A c \in DOMAIN pc \ Succeeded : result[c] = "INSUFFICIENT_BALANCE"

\* C2 witness: all calls have ended, two or more have succeeded, and a call
\* whose attempt was aborted by a conflict has ended with INSUFFICIENT_BALANCE
C2_Witness ==
    /\ AllDone
    /\ ContendedQuota >= 2
    /\ Cardinality(Succeeded) = ContendedQuota
    /\ \E c \in DOMAIN pc : result[c] = "INSUFFICIENT_BALANCE" /\ attempts[c] >= 1

\* C3: a step in which a call ends with a business failure (source missing,
\* destination missing, insufficient balance) changes no account and no
\* ledger entry, and a call that ended so has no ledger entry of its own.
C3_BusinessFailureStep ==
    \A c \in DOMAIN pc :
      (result[c] = "none" /\ result'[c] \in BusinessFailures) =>
        (accounts' = accounts /\ ledger' = ledger)
C3_AtomicOnBusinessFailure == [][C3_BusinessFailureStep]_vars

\* C3 witness: one call has failed for insufficient balance and another for a
\* missing destination after it had read its source
C3_Witness ==
    \E c1, c2 \in DOMAIN pc :
      /\ result[c1] = "INSUFFICIENT_BALANCE"
      /\ result[c2] = "ACCOUNT_NOT_FOUND_DESTINATION"
      /\ req[c2].amount > 0

\* C4 (as claimed): no account balance is ever negative when every transfer
\* that is applied has passed the balance check.
C4_NoNegativeBalance == \A id \in DOMAIN accounts : accounts[id].balance >= 0

\* C5 (as claimed): the ledger holds, for each successful transfer, its debit
\* entry and its credit entry, and no other entry: k successful transfers
\* leave exactly k debit and k credit entries.
C5_PairedEntries ==
    /\ \A c \in DOMAIN pc :
         result[c] = "success" => DebitPresent(c) /\ CreditPresent(c)
    /\ Cardinality(EntriesOfType("debit")) =
         Cardinality({c \in DOMAIN pc : result[c] = "success"})
    /\ Cardinality(EntriesOfType("credit")) =
         Cardinality({c \in DOMAIN pc : result[c] = "success"})

\* C6 (as claimed): a call whose source and destination ids are equal ends
\* with INVALID_REQUEST, and the store is as it was.
C6_SameAccountRejected ==
    \A c \in DOMAIN pc :
      (Answered(c) /\ req[c].fromAccountId = req[c].toAccountId) =>
        /\ result[c] = "INVALID_REQUEST"
        /\ accounts = store0 /\ ledger = << >>

\* C7 (as claimed): a call whose amount is zero or negative ends with
\* INVALID_REQUEST.
C7_NonPositiveAmountRejected ==
    \A c \in DOMAIN pc :
      (Answered(c) /\ req[c].amount <= 0) => result[c] = "INVALID_REQUEST"

\* C8 (as claimed): a call with a missing source ends with
\* ACCOUNT_NOT_FOUND for the source, and a call with an existing source and a
\* missing destination ends with ACCOUNT_NOT_FOUND for the destination,
\* whatever the amount.
C8_ExistenceBeforeBalance ==
    \A c \in DOMAIN pc :
      Answered(c) =>
        /\ ~Exists(accounts, req[c].fromAccountId) =>
             result[c] = "ACCOUNT_NOT_FOUND_SOURCE"
        /\ (Exists(accounts, req[c].fromAccountId)
              /\ ~Exists(accounts, req[c].toAccountId)) =>
             result[c] = "ACCOUNT_NOT_FOUND_DESTINATION"

\* C8 (amended): a call with a missing source ends with ACCOUNT_NOT_FOUND for
\* the source; a call with an existing source and a missing destination ends
\* with INSUFFICIENT_BALANCE when the source balance it read is less than the
\* amount and with ACCOUNT_NOT_FOUND for the destination otherwise; the step
\* that ends the call so leaves every balance as it was.
C8_Precedence ==
    \A c \in DOMAIN pc :
      Answered(c) =>
        /\ ~Exists(accounts, req[c].fromAccountId) =>
             result[c] = "ACCOUNT_NOT_FOUND_SOURCE"
        /\ (Exists(accounts, req[c].fromAccountId)
              /\ ~Exists(accounts, req[c].toAccountId)) =>
             result[c] = IF snap[c].fromBal < req[c].amount
                         THEN "INSUFFICIENT_BALANCE"
                         ELSE "ACCOUNT_NOT_FOUND_DESTINATION"
C8_FailureStep ==
    \A c \in DOMAIN pc :
      (result[c] = "none" /\ result'[c] \in BusinessFailures) =>
        Balances(accounts') = Balances(accounts)
C8_BalanceBeforeDestination == []C8_Precedence /\ [][C8_FailureStep]_vars

\* C8 witness: a call to a missing destination has ended with
\* INSUFFICIENT_BALANCE, and another with ACCOUNT_NOT_FOUND for the destination
C8_Witness ==
    \E c1, c2 \in DOMAIN pc :
      /\ ~Exists(accounts, req[c1].toAccountId)
      /\ result[c1] = "INSUFFICIENT_BALANCE"
      /\ ~Exists(accounts, req[c2].toAccountId)
      /\ result[c2] = "ACCOUNT_NOT_FOUND_DESTINATION"

\* C9: the balances and the ledger are, in every state, those obtained by
\* running the committed transfers one at a time in commit order.
C9_Serializable ==
    /\ Balances(accounts) = Balances(serial.accounts)
    /\ ledger = serial.ledger

\* C9 witness: two calls with a common account have both committed, one of
\* them after an attempt of it was aborted by the other's commit
C9_Witness ==
    \E c1, c2 \in DOMAIN pc :
      /\ c1 # c2
      /\ result[c1] = "success" /\ result[c2] = "success"
      /\ attempts[c2] >= 1
      /\ req[c1].amount > 0 /\ req[c2].amount > 0
      /\ req[c1].fromAccountId = req[c2].fromAccountId
      /\ req[c1].fromAccountId # req[c1].toAccountId

\* C10 (as claimed): for every transfer that has committed, its debit entry
\* and its credit entry are both in the ledger: no state shows a balance
\* change without its two entries, or one entry without the other.
C10_AllOrNothingVisible ==
    \A c \in DOMAIN pc :
      result[c] = "success" => (DebitPresent(c) /\ CreditPresent(c))

\* C11 (as claimed): the newFromBalance and newToBalance a successful call
\* returns are the balances its commit stored for the source and for the
\* destination.
C11_CommitStep ==
    \A c \in DOMAIN pc :
      (result[c] = "none" /\ result'[c] = "success") =>
        /\ accounts'[req[c].fromAccountId].balance =
             TransferResult(req[c], snap[c]).newFromBalance
        /\ accounts'[req[c].toAccountId].balance =
             TransferResult(req[c], snap[c]).newToBalance
C11_ResultIsStored == [][C11_CommitStep]_vars

\* C12: the commit of a transfer writes a debit entry owned by the requesting
\* user and a credit entry owned by the owner of the destination account.
C12_CommitStep ==
    \A c \in DOMAIN pc :
      (result[c] = "none" /\ result'[c] = "success") =>
        /\ ledger'[snap[c].debitId].type = "debit"
        /\ ledger'[snap[c].debitId].userId = req[c].userId
        /\ ledger'[snap[c].creditId].type = "credit"
        /\ ledger'[snap[c].creditId].userId = accounts[req[c].toAccountId].userId
C12_EntryOwnership == [][C12_CommitStep]_vars

\* C12 witness: a transfer requested by a user who does not own the
\* destination has committed, and its credit entry is in the ledger
C12_Witness ==
    \E c \in DOMAIN pc :
      /\ result[c] = "success"
      /\ req[c].fromAccountId # req[c].toAccountId
      /\ req[c].userId # accounts[req[c].toAccountId].userId
      /\ CreditPresent(c)

\* C13 (as claimed): an entry of the ledger is in the ledger, unchanged, in
\* every later state.
C13_LedgerStep ==
    \A id \in DOMAIN ledger : id \in DOMAIN ledger' /\ ledger'[id] = ledger[id]
C13_LedgerImmutable == [][C13_LedgerStep]_vars

\* C14: a call that ends with TRANSFER_ERROR because its attempts are used up
\* or the store is unreachable has applied nothing: the step that ends it
\* changes no account and no ledger entry, its destination has received
\* nothing, and the source has been debited for the successful calls only.
C14_ErrorStep ==
    \A c \in DOMAIN pc :
      (result[c] = "none" /\ result'[c] = "TRANSFER_ERROR") =>
        (accounts' = accounts /\ ledger' = ledger)
C14_NothingApplied ==
    /\ \A c \in DOMAIN pc :
         result[c] = "TRANSFER_ERROR" =>
           accounts[req[c].toAccountId].balance =
             store0[req[c].toAccountId].balance
    /\ accounts["A"].balance =
         store0["A"].balance - Cardinality(Succeeded) * ContendedAmount
C14_CommitFailureIsNotSuccess == []C14_NothingApplied /\ [][C14_ErrorStep]_vars

\* C14 witness: a call has ended with TRANSFER_ERROR after MaxAttempts
\* attempts, each aborted by the commit of another call
C14_Witness ==
    \E c \in DOMAIN pc :
      /\ result[c] = "TRANSFER_ERROR"
      /\ attempts[c] = MaxAttempts
      /\ Cardinality(Succeeded) = MaxAttempts

\* C19: for two existing distinct accounts and a positive amount a call ends
\* with INSUFFICIENT_BALANCE exactly when the source balance it read is less
\* than the amount, and a commit of an amount equal to the balance read
\* leaves the source at 0.
C19_Applies(c) ==
    /\ Exists(accounts, req[c].fromAccountId)
    /\ Exists(accounts, req[c].toAccountId)
    /\ req[c].fromAccountId # req[c].toAccountId
    /\ req[c].amount > 0
C19_Boundary ==
    \A c \in DOMAIN pc :
      (Answered(c) /\ C19_Applies(c)) =>
        /\ result[c] = "INSUFFICIENT_BALANCE" <=> snap[c].fromBal < req[c].amount
        /\ result[c] = "success" <=> snap[c].fromBal >= req[c].amount
C19_CommitStep ==
    \A c \in DOMAIN pc :
      (result[c] = "none" /\ result'[c] = "success" /\ C19_Applies(c)
         /\ snap[c].fromBal = req[c].amount) =>
        accounts'[req[c].fromAccountId].balance = 0
C19_BalanceCheckBoundary == []C19_Boundary /\ [][C19_CommitStep]_vars

\* C19 witness: a transfer of the whole balance has committed and the source
\* is at 0, and another call has ended with INSUFFICIENT_BALANCE
C19_Witness ==
    \E c1, c2 \in DOMAIN pc :
      /\ C19_Applies(c1) /\ result[c1] = "success"
      /\ snap[c1].fromBal = req[c1].amount
      /\ accounts[req[c1].fromAccountId].balance = 0
      /\ C19_Applies(c2) /\ result[c2] = "INSUFFICIENT_BALANCE"

C20_Bounded ==
    \A c \in DOMAIN pc :
      /\ attempts[c] <= MaxAttempts
      /\ attempts[c] = MaxAttempts => (Done(c) /\ result[c] = "TRANSFER_ERROR")
      /\ result[c] = "TRANSFER_ERROR" => attempts[c] = MaxAttempts
C20_RetryStep ==
    \A c \in DOMAIN pc :
      (attempts'[c] = attempts[c] + 1 /\ attempts'[c] < MaxAttempts) =>
        (pc'[c] = "getFrom" /\ snap'[c] = NoSnap /\ result'[c] = "none")
C17_UniqueAccountNumbers ==
    \A i, j \in DOMAIN accounts :
      i # j => accounts[i].accountNumber # accounts[j].accountNumber

\* C18: every account that createAccount or registerUser adds to the store
\* has balance 0 and status active in the state it is added, whatever
\* balance and status the caller has passed.
C18_CreationStep ==
    \A id \in DOMAIN accounts' \ DOMAIN accounts :
      accounts'[id].balance = 0 /\ accounts'[id].status = "active"
C18_ZeroOpeningBalance == [][C18_CreationStep]_vars

\* C18 witness: createAccount was called with a balance above 0 and a status
\* other than active and has added its account, and registerUser has added
\* a checking account
C18_Witness ==
    /\ returned.op = "createAccount"
    /\ returned.arg.balance > 0
    /\ returned.arg.status # "active"
    /\ returned.id \in DOMAIN accounts
    /\ \E u \in DOMAIN users : CheckingId[u] \in DOMAIN accounts

\* C15: a step of getAccountById, getUserAccounts, getAccountTransactions or
\* getUserTransactions leaves every account, every ledger entry and every
\* user document as it was, also between the steps of transfers in flight.
C15_ReadsChangeNothing ==
    [][ReadStep => UNCHANGED <<accounts, ledger, createdAt, users>>]_vars

\* C15 witness: a listing was called after a transfer had committed and
\* while another transfer was in flight
C15_Witness ==
    /\ returned.op = "getAccountTransactions"
    /\ returned.value # << >>
    /\ \E c \in DOMAIN pc : pc[c] = "commit"

\* C16: in every state, for every account id and limit the listing of the
\* account holds only entries of that account that are in the ledger, no
\* entry twice, at most limit of them, latest createdAt first, and no entry
\* of the account that it leaves out is later than one it holds; the same
\* for the listing of a user and the entries of that user.
C16_Listing(list, field, value, n) ==
    /\ Len(list) <= n
    /\ \A i \in DOMAIN list :
         /\ list[i].id \in DOMAIN ledger
         /\ list[i].data = ledger[list[i].id]
         /\ list[i].createdAt = createdAt[list[i].id]
         /\ list[i].data[field] = value
    /\ \A i, j \in DOMAIN list :
         i < j => (list[i].id # list[j].id /\ list[i].createdAt >= list[j].createdAt)
    /\ \A id \in DOMAIN ledger :
         (ledger[id][field] = value /\ \A i \in DOMAIN list : list[i].id # id) =>
           /\ Len(list) = n
           /\ \A i \in DOMAIN list : createdAt[id] <= list[i].createdAt
C16_NewestFirst ==
    \A n \in 1 .. MaxLimit :
      /\ \A id \in AllIds :
           C16_Listing(AccountTransactions(ledger, createdAt, id, n),
                       "accountId", id, n)
      /\ \A u \in Users :
           C16_Listing(UserTransactions(ledger, createdAt, u, n),
                       "userId", u, n)

\* C16 witness: getAccountTransactions was called with limit 1 for an account
\* that has entries of two commits, and the value it returned is still the
\* listing of the store
C16_Witness ==
    /\ returned.op = "getAccountTransactions"
    /\ returned.limit = 1
    /\ returned.value = AccountTransactions(ledger, createdAt, returned.arg, 1)
    /\ \E x, y \in DOMAIN ledger :
         /\ ledger[x].accountId = returned.arg
         /\ ledger[y].accountId = returned.arg
         /\ createdAt[x] < createdAt[y]

\* C21: in every step of the API, the balance of an existing account changes
\* only if the step is the commit of a createTransfer whose source or
\* destination is that account; the commit leaves every other field of the
\* two accounts, and every other account, as it was; no account is removed.
C21_Commits(c) == pc[c] = "commit" /\ pc'[c] = "done" /\ result'[c] = "success"
C21_Named(c, id) == id \in {req[c].fromAccountId, req[c].toAccountId}
C21_OtherFields(doc) == [doc EXCEPT !.balance = 0, !.version = 0]
C21_Step ==
    \A id \in DOMAIN accounts :
      /\ id \in DOMAIN accounts'
      /\ accounts'[id].balance # accounts[id].balance =>
           \E c \in DOMAIN pc : C21_Commits(c) /\ C21_Named(c, id)
      /\ \A c \in DOMAIN pc :
           C21_Commits(c) =>
             /\ C21_OtherFields(accounts'[id]) = C21_OtherFields(accounts[id])
             /\ ~C21_Named(c, id) => accounts'[id] = accounts[id]
C21_BalanceFrame == [][C21_Step]_vars

\* C21 witness: a transfer has committed between two accounts while an
\* account added by createAccount and one written by registerUser exist
C21_Witness ==
    /\ \E c \in DOMAIN pc :
         /\ result[c] = "success"
         /\ req[c].fromAccountId # req[c].toAccountId
    /\ "n1" \in DOMAIN accounts
    /\ "u3_checking" \in DOMAIN accounts
    /\ \E id \in ExistingIds : accounts[id].balance # store0[id].balance

\* C22: of two createTransfer calls in opposite directions between the same
\* two accounts, both eventually end, each with success or with an error.
C22_BothComplete ==
    <>(\A c \in DOMAIN pc : pc[c] = "done" /\ result[c] \in Outcomes)

\* C22 witness: both calls have ended with success, and one of them after an
\* attempt that the commit of the other had aborted
C22_Witness ==
    /\ \A c \in DOMAIN pc : pc[c] = "done" /\ result[c] = "success"
    /\ \E c \in DOMAIN pc : attempts[c] > 0
    /\ \E c, d \in DOMAIN pc :
         /\ req[c].fromAccountId = req[d].toAccountId
         /\ req[d].fromAccountId = req[c].toAccountId
         /\ req[c].fromAccountId # req[c].toAccountId

\* C23: a createTransfer call whose two accounts are named by no other call
\* is never aborted, ends with success, and from then on the ledger holds
\* the two entries it wrote, unaltered; once all calls have ended each such
\* account holds its opening balance less or plus the amount, whatever the
\* order of the commits was.
C23_Accounts(c) == {req[c].fromAccountId, req[c].toAccountId}
C23_Disjoint(c) ==
    \A d \in DOMAIN pc \ {c} : C23_Accounts(c) \cap C23_Accounts(d) = {}
C23_Independent ==
    \A c \in DOMAIN pc :
      C23_Disjoint(c) =>
        /\ attempts[c] = 0
        /\ Done(c) =>
             /\ result[c] = "success"
             /\ DebitPresent(c)
             /\ CreditPresent(c)
        /\ AllDone =>
             /\ accounts[req[c].fromAccountId].balance =
                  store0[req[c].fromAccountId].balance - req[c].amount
             /\ accounts[req[c].toAccountId].balance =
                  store0[req[c].toAccountId].balance + req[c].amount

\* C25: from an empty store, through registerUser, createAccount and
\* createTransfer between two distinct accounts, every balance is 0; a call
\* with a positive amount that has ended has ended with INSUFFICIENT_BALANCE,
\* and as long as every call made had a positive amount the ledger is empty.
C25_Positive(c) == pc[c] # "idle" /\ req[c].amount > 0
C25_ClosedSupply ==
    /\ \A id \in DOMAIN accounts : accounts[id].balance = 0
    /\ \A c \in DOMAIN pc :
         (C25_Positive(c) /\ Done(c)) => result[c] = "INSUFFICIENT_BALANCE"
    /\ (\A c \in DOMAIN pc : pc[c] = "idle" \/ C25_Positive(c)) => ledger = << >>

\* C25 witness: a registered user's account and an added account exist and a
\* transfer of a positive amount between them has ended
C25_Witness ==
    \E c \in DOMAIN pc :
      /\ C25_Positive(c)
      /\ Done(c)
      /\ req[c].fromAccountId \in {CheckingId[u] : u \in Users}
      /\ req[c].toAccountId \in AddedIds
      /\ \A d \in DOMAIN pc : pc[d] = "idle" \/ C25_Positive(d)

\* C26: a createTransfer of a positive amount that ends with success has a
\* source and a destination in the same currency, and in every state the balances of the
\* accounts held in a currency add up to what they added up to at the start.
C26_PerCurrencyConservation ==
    /\ \A c \in DOMAIN pc :
         (result[c] = "success" /\ req[c].amount > 0) =>
           accounts[req[c].fromAccountId].currency =
             accounts[req[c].toAccountId].currency
    /\ \A currency \in Currencies :
         CurrencyTotal(accounts, currency) = CurrencyTotal(store0, currency)

\* C27 (as claimed): the userId of every ledger entry is the userId of the
\* account the entry names, whoever requested the transfer.
C27_OwnerConsistency ==
    \A id \in DOMAIN ledger :
      ledger[id].userId = accounts[ledger[id].accountId].userId

\* C27 (amended): the userId of a credit entry is the userId of the account
\* it names; the userId of a debit entry is the userId passed by a successful
\* call whose source is the account it names, so it is the owner's whenever
\* that requester owns the source.
C27_Writer(entry, c) ==
    /\ result[c] = "success"
    /\ req[c].fromAccountId = entry.accountId
    /\ req[c].userId = entry.userId
C27_OwnerOrRequester ==
    \A id \in DOMAIN ledger :
      /\ ledger[id].type = "credit" =>
           ledger[id].userId = accounts[ledger[id].accountId].userId
      /\ ledger[id].type = "debit" =>
           /\ \E c \in DOMAIN pc : C27_Writer(ledger[id], c)
           /\ (\A c \in DOMAIN pc :
                 C27_Writer(ledger[id], c) =>
                   req[c].userId = accounts[req[c].fromAccountId].userId)
                => ledger[id].userId = accounts[ledger[id].accountId].userId

\* C27 witness: the ledger holds a credit entry, a debit entry written for a
\* requester who owns the source, and a debit entry written for one who does
\* not
C27_Witness ==
    /\ \E id \in DOMAIN ledger : ledger[id].type = "credit"
    /\ \E id \in DOMAIN ledger :
         /\ ledger[id].type = "debit"
         /\ ledger[id].userId = accounts[ledger[id].accountId].userId
    /\ \E id \in DOMAIN ledger :
         /\ ledger[id].type = "debit"
         /\ ledger[id].userId # accounts[ledger[id].accountId].userId

\* C24: a submission whose amount is NaN, zero or negative or exceeds the
\* balance shown for the selected source, or whose source or destination is
\* empty, or whose source and destination are equal, does not call
\* createTransfer and changes nothing in the store.
C24_Invalid(form, options) ==
    LET data == TransferData(form)
        shown == AccountBalance(options, data.fromAccountId)
    IN \/ data.amount.nan
       \/ data.amount.num <= 0
       \/ ~shown.nan /\ data.amount.num > shown.num
       \/ data.fromAccountId = ""
       \/ data.toAccountId = ""
       \/ data.fromAccountId = data.toAccountId
C24_Step ==
    (page'.options = page.options /\ C24_Invalid(page'.form, page.options)) =>
      /\ page'.outcome # "called"
      /\ UNCHANGED <<accounts, ledger, createdAt, users, pc, req>>
C24_InvalidNeverCalls == [][C24_Step]_vars

\* C24 witness: with the balances shown, a form with equal source and
\* destination and an amount of 0 was submitted and errors were shown
C24_Witness ==
    /\ page.options # << >>
    /\ page.outcome = "errors"
    /\ page.form.fromAccount = Trim(page.form.toAccount)
    /\ page.form.fromAccount # ""
    /\ page.form.amount = "0"
    /\ \A c \in DOMAIN pc : pc[c] = "idle"

\* C30: the submission of a form with a selected source, a destination of
\* at least 4 characters that differs from the source, and a positive amount
\* not above the balance shown for the source calls createTransfer, in one
\* call, with those values and the uid of the current user.
C30_Valid(form, options) ==
    LET data == TransferData(form) IN
      /\ data.fromAccountId \in DOMAIN options
      /\ Len(data.toAccountId) >= MinAccountIdLength
      /\ data.toAccountId # data.fromAccountId
      /\ ~data.amount.nan
      /\ data.amount.num > 0
      /\ data.amount.num <= options[data.fromAccountId]
C30_Step ==
    (page'.options = page.options /\ page' # page
       /\ C30_Valid(page'.form, page.options)) =>
      /\ page'.outcome = "called"
      /\ \E c \in DOMAIN pc :
           /\ pc[c] = "idle"
           /\ pc'[c] = "getFrom"
           /\ req'[c] = [fromAccountId |-> page'.form.fromAccount,
                         toAccountId |-> Trim(page'.form.toAccount),
                         amount |-> ParseFloat(page'.form.amount).num,
                         userId |-> auth.currentUser]
           /\ \A d \in DOMAIN pc \ {c} : pc'[d] = pc[d] /\ req'[d] = req[d]
C30_ValidReachesEngine == [][C30_Step]_vars

\* C28: when no callback of the observer is waiting for getUserData,
\* currentUser is the user of the last auth event delivered: null, with
\* isAuthenticated() false, after a sign-out, and the signed-in uid otherwise.
C28_FollowsLastEvent ==
    (auth.awaiting = << >> /\ auth.lastEvent # "none") =>
      /\ auth.currentUser = auth.lastEvent
      /\ IsAuthenticated <=> auth.lastEvent # "null"

\* C29: the observer is registered at most once; an initAuth call returns the
\* promise of the call before it unless that one was rejected; when an
\* initialization fails authInitPromise becomes null and authStateKnown
\* false, and the next initAuth call starts the initialization again.
C29_OneObserver ==
    /\ auth.observers <= 1
    /\ \A i \in DOMAIN auth.returns :
         i > 1 => \/ auth.returns[i] = auth.returns[i - 1]
                  \/ auth.settled[auth.returns[i - 1]] = "rejected"
C29_Step ==
    /\ (auth.initializing # 0 /\ auth'.initializing = 0
          /\ auth'.settled[auth.initializing] = "rejected") =>
         (auth'.authInitPromise = 0 /\ ~auth'.authStateKnown)
    /\ (auth.authInitPromise = 0 /\ Len(auth'.returns) > Len(auth.returns)) =>
         /\ auth'.initializing # 0
         /\ auth'.authInitPromise = auth'.initializing
         /\ auth'.authInitPromise \notin {auth.returns[i] : i \in DOMAIN auth.returns}
C29_SingleObserver == []C29_OneObserver /\ [][C29_Step]_vars

\* C29 witness: a first initialization failed, the next call started a
\* second one, which registered the observer, and a call made while it was
\* pending and one made after it had resolved returned its promise
C29_Witness ==
    /\ Len(auth.returns) = 3
    /\ auth.settled[auth.returns[1]] = "rejected"
    /\ auth.returns[2] # auth.returns[1]
    /\ auth.returns[3] = auth.returns[2]
    /\ auth.settled[auth.returns[3]] = "resolved"
    /\ auth.observers = 1

====
